---- MODULE Spec2Model ----
(***************************************************************************)
(* Model of the client-side logic of ai_chat:                              *)
(*   - the citation renderer, Message.renderContent, in its two variants   *)
(*     (src/unnamed/part_001, keyed by a Map; and                          *)
(*     src/ai_chat/web/src/components/Message.tsx, using Array.find);      *)
(*   - the document status poll loop of DocumentPanel                      *)
(*     (src/frontend/src/api/index.ts, pollDocumentStatus and              *)
(*     handleFileUpload);                                                  *)
(*   - the citation marks of MessageList.renderMessageContent              *)
(*     (src/frontend/src/components/MessageList.tsx);                      *)
(*   - conversationApi (src/frontend/src/api/index.ts) and the two chat    *)
(*     pages that use it: NewChatInterface                                 *)
(*     (src/frontend/src/components/DocumentList.tsx) and ChatInterface    *)
(*     (src/unnamed/part_003);                                             *)
(*   - the upload dialog DocumentUpload (src/unnamed/part_002).            *)
(* Strings are sequences of one-character strings.                         *)
(***************************************************************************)
EXTENDS Integers, Sequences, FiniteSets, TLC

VARIABLES
    content,      \* Message prop: the raw text of the message
    citations,    \* Message prop: the citation list
    view,         \* which Message component has rendered: "none", "Message", "WebMessage"
    segments,     \* the children produced by renderContent, in order
    mounted,      \* DocumentPanel is on screen (onClose has not been clicked)
    error,        \* DocumentPanel state `error`: "null", "upload", "status" or "delete"
    errorFrom,    \* the document whose poll loop wrote the message in `error`, or 0
    uploading,    \* uploadDocument.mutateAsync is awaiting the backend
    deleting,     \* deleteDocument.mutateAsync is awaiting the backend
    assigned,     \* the document ids the backend has returned from uploads
    inflight,     \* per document: getStatus requests awaiting their response
    timers,       \* per document: pending setTimeout callbacks of its poll loop
    fetches,      \* per document: getStatus requests issued so far
    lastStatus,   \* per document: what the last getStatus settled with
    nonTerminal,  \* per document: responses received with status pending or processing
    terminalCalls,\* per document: invalidateQueries('documents') calls of its poll loop
    errorCalls,   \* per document: setError calls of its poll loop
    closePhase,   \* per document: what its poll loop was doing when the panel was closed
    afterClose,   \* per document: what its poll loop did after the panel was closed
    srvConvs,     \* backend: the conversations, in creation order, with their messages
    createLog,    \* the POST /chat/conversations requests issued, in order
    postLog,      \* the conversation ids of the POST .../messages requests issued, in order
    ncInit,       \* NewChatInterface: initData is "pending" or "done"
    ncConversations, \* NewChatInterface state `conversations`
    ncCurrent,    \* NewChatInterface state `currentConversation` (0 is null)
    ncLoading,    \* NewChatInterface state `loading`
    ncSubmit,     \* NewChatInterface.handleSubmit: the call in progress, or the last one
    ncNewChat,    \* NewChatInterface.handleNewChat: the call in progress, or the last one
    ciMessages,   \* ChatInterface state `messages`
    ciConversations, \* ChatInterface state `conversations`
    ciCurrent,    \* ChatInterface state `currentConversationId` (0 is null)
    ciLoading,    \* ChatInterface state `isLoading`
    ciSubmit,     \* ChatInterface.handleSubmit: the call in progress, or the last one
    ciSelect,     \* ChatInterface.handleSelectConversation: the ids being loaded,
                  \* one per call awaiting getMessages, in the order of the clicks
    ciClock,      \* the value Date.now() returned last
    duVisible,    \* DocumentUpload prop `visible`: the modal is open
    duFileList,   \* DocumentUpload state `fileList`
    duUploading,  \* DocumentUpload state `uploading`
    duOffered,    \* the file beforeUpload was last called with, and its verdict
    duNextUid,    \* the uid the Upload component gives the next file it lists
    duDocs,       \* backend: documents stored by POST /api/documents
    duRun         \* DocumentUpload.handleUpload: the call in progress, or the last one

renderVars == <<content, citations, view, segments>>

pollVars == <<mounted, error, errorFrom, uploading, deleting, assigned, inflight, timers, fetches,
              lastStatus, nonTerminal, terminalCalls, errorCalls, closePhase, afterClose>>

apiVars == <<srvConvs, createLog, postLog>>

ncVars == <<ncInit, ncConversations, ncCurrent, ncLoading, ncSubmit, ncNewChat>>

ciVars == <<ciMessages, ciConversations, ciCurrent, ciLoading, ciSubmit, ciSelect, ciClock>>

chatVars == <<apiVars, ncVars, ciVars>>

uploadVars == <<duVisible, duFileList, duUploading, duOffered, duNextUid, duDocs, duRun>>

vars == <<renderVars, pollVars, chatVars, uploadVars>>

----------------------------------------------------------------------------
(* Bounds of the inputs *)

MaxAtoms == 3
MaxCitations == 2

Chars == {"a", "[", "]", "0", "1", "2"}
Digits == {"0", "1", "2", "3", "4", "5", "6", "7", "8", "9"}
CitationIndexes == {1, 2}
DocumentIds == {7, 8}

Citations == [index : CitationIndexes, document_id : DocumentIds]

SeqsUpTo(S, n) == UNION {[1..k -> S] : k \in 0..n}

RECURSIVE Flatten(_)
Flatten(ss) == IF ss = <<>> THEN <<>> ELSE Head(ss) \o Flatten(Tail(ss))

\* content strings: up to MaxAtoms atoms, an atom being one character or a
\* whole marker, so that several markers fit in a short list of atoms
ContentAtoms == {<<c>> : c \in Chars} \cup {<<"[", "1", "]">>, <<"[", "2", "]">>}
AtomContents == {Flatten(a) : a \in SeqsUpTo(ContentAtoms, MaxAtoms)}

\* "see [5] here", "A[1]B", "[2] then [1]" and "[01][12]"
SeeFiveHere == <<"s", "e", "e", " ", "[", "5", "]", " ", "h", "e", "r", "e">>
AOneB == <<"A", "[", "1", "]", "B">>
TwoThenOne == <<"[", "2", "]", " ", "t", "h", "e", "n", " ", "[", "1", "]">>
ZeroOneTwelve == <<"[", "0", "1", "]", "[", "1", "2", "]">>
EdgeContents == {SeeFiveHere, AOneB, TwoThenOne, ZeroOneTwelve}

Contents == AtomContents \cup EdgeContents
CitationLists == SeqsUpTo(Citations, MaxCitations)

----------------------------------------------------------------------------
(* The regular expression /\[\d+\]/ *)

MaxOf(S) == CHOOSE x \in S : \A y \in S : y <= x

\* \d+ from position i, greedy: the last position of the run of digits
\* starting at i (i-1 when s[i] is no digit)
DigitRunEnd(s, i) ==
    MaxOf({j \in (i - 1)..Len(s) : \A k \in i..j : s[k] \in Digits})

\* /\[\d+\]/ anchored at position i: the position of the closing bracket, or 0.
\* A shorter run of digits is followed by a digit, never by "]", so
\* backtracking finds nothing the greedy run does not.
MatchEnd(s, i) ==
    IF i <= Len(s) /\ s[i] = "["
    THEN LET e == DigitRunEnd(s, i + 1)
         IN  IF e >= i + 1 /\ e + 1 <= Len(s) /\ s[e + 1] = "]" THEN e + 1 ELSE 0
    ELSE 0

\* String.prototype.split with a separator that has one capturing group:
\* the text before each match, then the captured match, then the rest.
\* p is the start of the pending piece, q the position the search is at.
RECURSIVE SplitFrom(_, _, _)
SplitFrom(s, p, q) ==
    IF q > Len(s)
    THEN <<SubSeq(s, p, Len(s))>>
    ELSE LET e == MatchEnd(s, q)
         IN  IF e = 0
             THEN SplitFrom(s, p, q + 1)
             ELSE <<SubSeq(s, p, q - 1), SubSeq(s, q, e)>> \o SplitFrom(s, e + 1, e + 1)

\* split on /\[\d+\]/ without the capturing group: the matches are dropped
RECURSIVE SplitFromNoCapture(_, _, _)
SplitFromNoCapture(s, p, q) ==
    IF q > Len(s)
    THEN <<SubSeq(s, p, Len(s))>>
    ELSE LET e == MatchEnd(s, q)
         IN  IF e = 0
             THEN SplitFromNoCapture(s, p, q + 1)
             ELSE <<SubSeq(s, p, q - 1)>> \o SplitFromNoCapture(s, e + 1, e + 1)

splitNoCapture(s) == SplitFromNoCapture(s, 1, 1)

split(s) == SplitFrom(s, 1, 1)

NoMatch == <<"null">>

\* part.match(/\[(\d+)\]/): the first match anywhere in part; the result is
\* match[1], the digits, or NoMatch (null)
match(part) ==
    LET starts == {i \in 1..Len(part) : MatchEnd(part, i) # 0}
    IN  IF starts = {}
        THEN NoMatch
        ELSE LET i == CHOOSE x \in starts : \A y \in starts : x <= y
             IN  SubSeq(part, i + 1, MatchEnd(part, i) - 1)

DigitVal(c) ==
    CASE c = "0" -> 0 [] c = "1" -> 1 [] c = "2" -> 2 [] c = "3" -> 3 [] c = "4" -> 4
      [] c = "5" -> 5 [] c = "6" -> 6 [] c = "7" -> 7 [] c = "8" -> 8 [] c = "9" -> 9

\* parseInt(digits, 10) of a non-empty string of decimal digits
RECURSIVE parseInt(_)
parseInt(ds) ==
    IF ds = <<>> THEN 0
    ELSE parseInt(SubSeq(ds, 1, Len(ds) - 1)) * 10 + DigitVal(ds[Len(ds)])

----------------------------------------------------------------------------
(* Message.renderContent *)

Plain(part) == [kind |-> "Plain", text |-> part]
CitationRef(part, c) == [kind |-> "CitationRef", text |-> part, citation |-> c]

\* a map keyed by the position in the list instead of citation.index
citationMapByPosition(cits, k) == [n \in 1..k |-> cits[n]]

\* a map that keeps the first citation of an index: set only when absent
RECURSIVE citationMapFirstWins(_, _)
citationMapFirstWins(cits, k) ==
    IF k = 0 THEN <<>>
    ELSE LET m == citationMapFirstWins(cits, k - 1)
             c == cits[k]
         IN  [n \in DOMAIN m \cup {c.index} |-> IF n \in DOMAIN m THEN m[n] ELSE c]

\* citations.forEach(c => citationMap.set(c.index, c)) over the first k citations
RECURSIVE citationMap(_, _)
citationMap(cits, k) ==
    IF k = 0 THEN <<>>
    ELSE LET m == citationMap(cits, k - 1)
             c == cits[k]
         IN  [n \in DOMAIN m \cup {c.index} |-> IF n = c.index THEN c ELSE m[n]]

\* a callback without `if (citation)`: a marker without a citation reads
\* citation.document_id of undefined, which throws a TypeError
renderPartUnchecked(part, cmap) ==
    LET g == match(part)
    IN  IF g # NoMatch
        THEN IF parseInt(g) \in DOMAIN cmap
             THEN [kind |-> "CitationRef", text |-> part, citation |-> cmap[parseInt(g)]]
             ELSE [kind |-> "TypeError", text |-> part]
        ELSE [kind |-> "Plain", text |-> part]

\* a reference that shows match[1], the digits, instead of part
renderPartDigitsOnly(part, cmap) ==
    LET g == match(part)
    IN  IF g # NoMatch /\ parseInt(g) \in DOMAIN cmap
        THEN [kind |-> "CitationRef", text |-> g, citation |-> cmap[parseInt(g)]]
        ELSE [kind |-> "Plain", text |-> part]

\* one element of parts.map(...) in src/unnamed/part_001
renderPart(part, cmap) ==
    LET g == match(part)
    IN  IF g # NoMatch /\ parseInt(g) \in DOMAIN cmap
        THEN CitationRef(part, cmap[parseInt(g)])
        ELSE Plain(part)

\* renderContent of src/unnamed/part_001
renderContent(c, cits) ==
    IF Len(cits) = 0
    THEN <<Plain(c)>>
    ELSE LET cmap == citationMap(cits, Len(cits))
             parts == split(c)
         IN  [i \in 1..Len(parts) |-> renderPart(parts[i], cmap)]

\* citations.find(c => c.index === n): the first one, or undefined
find(cits, n) ==
    LET hits == {i \in 1..Len(cits) : cits[i].index = n}
    IN  IF hits = {} THEN <<>> ELSE <<cits[CHOOSE i \in hits : \A j \in hits : i <= j]>>

\* one element of parts.map(...) in web/src/components/Message.tsx
renderPartWeb(part, cits) ==
    LET g == match(part)
    IN  IF g # NoMatch /\ find(cits, parseInt(g)) # <<>>
        THEN CitationRef(part, find(cits, parseInt(g))[1])
        ELSE Plain(part)

\* renderContent of src/ai_chat/web/src/components/Message.tsx
renderContentWeb(c, cits) ==
    IF Len(cits) = 0
    THEN <<Plain(c)>>
    ELSE LET parts == split(c)
         IN  [i \in 1..Len(parts) |-> renderPartWeb(parts[i], cits)]

----------------------------------------------------------------------------
(* The Message components as a state machine *)

InitRender ==
    /\ content \in Contents
    /\ citations \in CitationLists
    /\ view = "none"
    /\ segments = <<>>

\* src/unnamed/part_001: <Message content citations/> renders
RenderMessage ==
    /\ view = "none"
    /\ view' = "Message"
    /\ segments' = renderContent(content, citations)
    /\ UNCHANGED <<content, citations>>
    /\ UNCHANGED pollVars
    /\ UNCHANGED <<chatVars, uploadVars>>

\* web/src/components/Message.tsx: <Message content citations/> renders
RenderWebMessage ==
    /\ view = "none"
    /\ view' = "WebMessage"
    /\ segments' = renderContentWeb(content, citations)
    /\ UNCHANGED <<content, citations>>
    /\ UNCHANGED pollVars
    /\ UNCHANGED <<chatVars, uploadVars>>

----------------------------------------------------------------------------
(* DocumentPanel: upload and the status poll loop *)

MaxFetches == 3

Docs == {1, 2}
Statuses == {"pending", "processing", "processed", "error"}

\* what a poll loop is doing
Phase(d) ==
    IF inflight[d] > 0 THEN "inflight"
    ELSE IF timers[d] > 0 THEN "timer"
    ELSE IF fetches[d] = 0 THEN "idle"
    ELSE "rest"

\* setError(msg): a state update of a component that is no longer mounted is dropped
setError(msg) == error' = IF mounted THEN msg ELSE error

\* whose message `error` holds after a setError: loop d's, or nobody's (0)
errorWrittenBy(d) == errorFrom' = IF mounted THEN d ELSE errorFrom

\* bookkeeping of what loop d does once the panel is closed
Note(d, what) ==
    afterClose' = IF mounted THEN afterClose
                  ELSE [afterClose EXCEPT ![d][what] = @ + 1]

\* pollDocumentStatus(d) up to its await: documentApi.getStatus(d) is issued
pollDocumentStatus(d) ==
    /\ inflight' = [inflight EXCEPT ![d] = @ + 1]
    /\ fetches' = [fetches EXCEPT ![d] = @ + 1]

\* a loop that never sets its timer again
KeepsPollingNever(s) == FALSE

\* status.status === 'pending'
KeepsPolling(s) == s = "pending"

\* the button "上传": handleFileUpload up to `await uploadDocument.mutateAsync(file)`
HandleFileUpload ==
    /\ mounted
    /\ ~uploading
    /\ assigned # Docs
    /\ uploading' = TRUE
    /\ error' = "null"
    /\ errorFrom' = 0
    /\ UNCHANGED <<mounted, assigned, inflight, timers, fetches, lastStatus,
                   nonTerminal, terminalCalls, errorCalls, closePhase, afterClose>>
    /\ UNCHANGED deleting
    /\ UNCHANGED renderVars
    /\ UNCHANGED <<chatVars, uploadVars>>

\* handleFileUpload without its call of pollDocumentStatus
UploadResolvedNoPoll(d) ==
    /\ uploading
    /\ d \notin assigned
    /\ uploading' = FALSE
    /\ assigned' = assigned \cup {d}
    /\ error' = IF mounted THEN "null" ELSE error
    /\ errorFrom' = IF mounted THEN 0 ELSE errorFrom
    /\ UNCHANGED <<mounted, inflight, fetches, afterClose, timers, lastStatus, nonTerminal,
                   terminalCalls, errorCalls, closePhase>>
    /\ UNCHANGED deleting
    /\ UNCHANGED renderVars
    /\ UNCHANGED <<chatVars, uploadVars>>

\* the upload resolves with a new document's id: the mutation's onSuccess, then
\* `if (result.id) pollDocumentStatus(result.id)`
UploadResolved(d) ==
    /\ uploading
    /\ d \notin assigned
    /\ uploading' = FALSE
    /\ assigned' = assigned \cup {d}
    /\ setError("null")
    /\ errorWrittenBy(0)
    /\ IF d # 0
       THEN pollDocumentStatus(d) /\ Note(d, "fetches")
       ELSE UNCHANGED <<inflight, fetches, afterClose>>
    /\ UNCHANGED <<mounted, timers, lastStatus, nonTerminal, terminalCalls,
                   errorCalls, closePhase>>
    /\ UNCHANGED deleting
    /\ UNCHANGED renderVars
    /\ UNCHANGED <<chatVars, uploadVars>>

\* the upload rejects: the mutation's onError, then the catch of handleFileUpload
UploadRejected ==
    /\ uploading
    /\ uploading' = FALSE
    /\ setError("upload")
    /\ errorWrittenBy(0)
    /\ UNCHANGED <<mounted, assigned, inflight, timers, fetches, lastStatus,
                   nonTerminal, terminalCalls, errorCalls, closePhase, afterClose>>
    /\ UNCHANGED deleting
    /\ UNCHANGED renderVars
    /\ UNCHANGED <<chatVars, uploadVars>>

\* getStatus(d) resolves with status s: pollDocumentStatus after its await
StatusResolved(d, s) ==
    /\ inflight[d] > 0
    /\ inflight' = [inflight EXCEPT ![d] = @ - 1]
    /\ lastStatus' = [lastStatus EXCEPT ![d] = s]
    /\ nonTerminal' = [nonTerminal EXCEPT ![d] =
                          IF s \in {"pending", "processing"} THEN @ + 1 ELSE @]
    /\ IF KeepsPolling(s)
       THEN /\ timers' = [timers EXCEPT ![d] = @ + 1]
            /\ Note(d, "timers")
            /\ UNCHANGED terminalCalls
       ELSE /\ terminalCalls' = [terminalCalls EXCEPT ![d] = @ + 1]
            /\ Note(d, "terminal")
            /\ UNCHANGED timers
    /\ UNCHANGED <<mounted, error, errorFrom, uploading, assigned, fetches, errorCalls, closePhase>>
    /\ UNCHANGED deleting
    /\ UNCHANGED renderVars
    /\ UNCHANGED <<chatVars, uploadVars>>

\* a catch that retries: the rejection schedules the next fetch
StatusRejectedRetry(d) ==
    /\ inflight[d] > 0
    /\ inflight' = [inflight EXCEPT ![d] = @ - 1]
    /\ lastStatus' = [lastStatus EXCEPT ![d] = "rejected"]
    /\ errorCalls' = [errorCalls EXCEPT ![d] = @ + 1]
    /\ timers' = [timers EXCEPT ![d] = @ + 1]
    /\ error' = IF mounted THEN "status" ELSE error
    /\ errorFrom' = IF mounted THEN d ELSE errorFrom
    /\ afterClose' = IF mounted THEN afterClose
                     ELSE [afterClose EXCEPT ![d].errors = @ + 1, ![d].timers = @ + 1]
    /\ UNCHANGED <<mounted, uploading, assigned, fetches, nonTerminal,
                   terminalCalls, closePhase>>
    /\ UNCHANGED deleting
    /\ UNCHANGED renderVars
    /\ UNCHANGED <<chatVars, uploadVars>>

\* getStatus(d) rejects: the catch of pollDocumentStatus
StatusRejected(d) ==
    /\ inflight[d] > 0
    /\ inflight' = [inflight EXCEPT ![d] = @ - 1]
    /\ lastStatus' = [lastStatus EXCEPT ![d] = "rejected"]
    /\ errorCalls' = [errorCalls EXCEPT ![d] = @ + 1]
    /\ setError("status")
    /\ errorWrittenBy(d)
    /\ Note(d, "errors")
    /\ UNCHANGED <<mounted, uploading, assigned, timers, fetches, nonTerminal,
                   terminalCalls, closePhase>>
    /\ UNCHANGED deleting
    /\ UNCHANGED renderVars
    /\ UNCHANGED <<chatVars, uploadVars>>

\* setInterval in place of setTimeout: the timer stays set when it fires
TimerFiresInterval(d) ==
    /\ timers[d] > 0
    /\ fetches[d] < MaxFetches
    /\ inflight' = [inflight EXCEPT ![d] = @ + 1]
    /\ fetches' = [fetches EXCEPT ![d] = @ + 1]
    /\ afterClose' = IF mounted THEN afterClose
                     ELSE [afterClose EXCEPT ![d].fetches = @ + 1]
    /\ UNCHANGED <<mounted, error, errorFrom, uploading, assigned, timers, lastStatus, nonTerminal,
                   terminalCalls, errorCalls, closePhase>>
    /\ UNCHANGED deleting
    /\ UNCHANGED renderVars
    /\ UNCHANGED <<chatVars, uploadVars>>

\* a timer set by setTimeout(() => pollDocumentStatus(d), 2000) fires
TimerFires(d) ==
    /\ timers[d] > 0
    /\ fetches[d] < MaxFetches
    /\ timers' = [timers EXCEPT ![d] = @ - 1]
    /\ pollDocumentStatus(d)
    /\ Note(d, "fetches")
    /\ UNCHANGED <<mounted, error, errorFrom, uploading, assigned, lastStatus, nonTerminal,
                   terminalCalls, errorCalls, closePhase>>
    /\ UNCHANGED deleting
    /\ UNCHANGED renderVars
    /\ UNCHANGED <<chatVars, uploadVars>>

\* the button "删除" of a listed document: handleDelete up to
\* `await deleteDocument.mutateAsync(documentId)`. The buttons are disabled
\* while the mutation is loading. Which document is deleted changes nothing
\* of the panel's own state.
HandleDelete ==
    /\ mounted
    /\ ~deleting
    /\ deleting' = TRUE
    /\ error' = "null"
    /\ errorFrom' = 0
    /\ UNCHANGED <<mounted, uploading, assigned, inflight, timers, fetches, lastStatus,
                   nonTerminal, terminalCalls, errorCalls, closePhase, afterClose>>
    /\ UNCHANGED renderVars
    /\ UNCHANGED <<chatVars, uploadVars>>

\* the delete resolves: the mutation's onSuccess
DeleteResolved ==
    /\ deleting
    /\ deleting' = FALSE
    /\ setError("null")
    /\ errorWrittenBy(0)
    /\ UNCHANGED <<mounted, uploading, assigned, inflight, timers, fetches, lastStatus,
                   nonTerminal, terminalCalls, errorCalls, closePhase, afterClose>>
    /\ UNCHANGED renderVars
    /\ UNCHANGED <<chatVars, uploadVars>>

\* the delete rejects: the mutation's onError, then the catch of handleDelete
DeleteRejected ==
    /\ deleting
    /\ deleting' = FALSE
    /\ setError("delete")
    /\ errorWrittenBy(0)
    /\ UNCHANGED <<mounted, uploading, assigned, inflight, timers, fetches, lastStatus,
                   nonTerminal, terminalCalls, errorCalls, closePhase, afterClose>>
    /\ UNCHANGED renderVars
    /\ UNCHANGED <<chatVars, uploadVars>>

\* the button "✕": onClose, the panel is dismissed; nothing of the poll loops
\* is cancelled
Close ==
    /\ mounted
    /\ mounted' = FALSE
    /\ closePhase' = [d \in Docs |-> Phase(d)]
    /\ UNCHANGED <<error, errorFrom, uploading, assigned, inflight, timers, fetches, lastStatus,
                   nonTerminal, terminalCalls, errorCalls, afterClose>>
    /\ UNCHANGED deleting
    /\ UNCHANGED renderVars
    /\ UNCHANGED <<chatVars, uploadVars>>

InitPoll ==
    /\ mounted = TRUE
    /\ error = "null"
    /\ errorFrom = 0
    /\ uploading = FALSE
    /\ deleting = FALSE
    /\ assigned = {}
    /\ inflight = [d \in Docs |-> 0]
    /\ timers = [d \in Docs |-> 0]
    /\ fetches = [d \in Docs |-> 0]
    /\ lastStatus = [d \in Docs |-> "none"]
    /\ nonTerminal = [d \in Docs |-> 0]
    /\ terminalCalls = [d \in Docs |-> 0]
    /\ errorCalls = [d \in Docs |-> 0]
    /\ closePhase = [d \in Docs |-> "open"]
    /\ afterClose = [d \in Docs |-> [fetches |-> 0, timers |-> 0, terminal |-> 0, errors |-> 0]]

----------------------------------------------------------------------------
(* The backend's conversations and conversationApi *)

\* create requests and message posts issued in one run
MaxCreates == 2
MaxPosts == 2

\* the backend stores a new conversation and returns it; ids count up from 1
NewConversationId == Len(srvConvs) + 1
Conversation(id) == [id |-> id, messages |-> <<>>]

\* conversations.map(conv => conv.id === id ? {...conv, messages: [...conv.messages, r]} : conv)
appendResponse(convs, id, r) ==
    [i \in 1..Len(convs) |->
        IF convs[i].id = id
        THEN [convs[i] EXCEPT !.messages = Append(@, r)]
        ELSE convs[i]]

\* conversationApi.create(name): the body of POST /chat/conversations is { name }
createRequest(caller) == [body |-> {"name"}, caller |-> caller]

\* a sendMessage that posts at once, to the id it was given, null or not
sendMessageNoCreate(conversationId) ==
    [pc |-> "post", creates |-> 0, postedTo |-> conversationId]

\* conversationApi.sendMessage up to its first await: with a null id the
\* conversation is created first, else the message is posted to the id
sendMessage(conversationId) ==
    IF conversationId = 0
    THEN [pc |-> "create", creates |-> 1, postedTo |-> 0]
    ELSE [pc |-> "post", creates |-> 0, postedTo |-> conversationId]

IdleCall == [pc |-> "idle", cur |-> 0, convs |-> <<>>, creates |-> 0, returned |-> 0,
             postedTo |-> 0, failedAt |-> "none", response |-> 0]

\* the assistant message the backend returns for the n-th post
Response(n) == [id |-> [origin |-> "server", n |-> n], role |-> "assistant"]

InitApi(convs) ==
    /\ srvConvs = convs
    /\ createLog = <<>>
    /\ postLog = <<>>

----------------------------------------------------------------------------
(* NewChatInterface (src/frontend/src/components/DocumentList.tsx) *)

InitNewChat ==
    /\ ncInit = "pending"
    /\ ncConversations = <<>>
    /\ ncCurrent = 0
    /\ ncLoading = FALSE
    /\ ncSubmit = IdleCall
    /\ ncNewChat = [pending |-> <<>>, created |-> {}]

\* useEffect initData: conversationApi.list() resolves
NcInitResolved ==
    /\ ncInit = "pending"
    /\ ncInit' = "done"
    /\ ncConversations' = srvConvs
    /\ ncCurrent' = IF Len(srvConvs) > 0 THEN srvConvs[1].id ELSE ncCurrent
    /\ UNCHANGED <<ncLoading, ncSubmit, ncNewChat, apiVars>>
    /\ UNCHANGED <<renderVars, pollVars, ciVars, uploadVars>>

\* useEffect initData: conversationApi.list() rejects
NcInitRejected ==
    /\ ncInit = "pending"
    /\ ncInit' = "done"
    /\ UNCHANGED <<ncConversations, ncCurrent, ncLoading, ncSubmit, ncNewChat, apiVars>>
    /\ UNCHANGED <<renderVars, pollVars, ciVars, uploadVars>>

\* handleSubmit up to the first await inside sendMessage. The send button is
\* in its loading state and the input disabled while `loading` is set. The
\* handler closes over currentConversation and conversations of this render.
NcHandleSubmit ==
    /\ ~ncLoading
    /\ ncSubmit.pc \in {"idle", "done", "failed"}
    /\ Len(postLog) < MaxPosts
    /\ ncCurrent = 0 => Len(createLog) < MaxCreates
    /\ ncLoading' = TRUE
    /\ LET call == sendMessage(ncCurrent)
       IN  /\ ncSubmit' = [pc |-> call.pc, cur |-> ncCurrent, convs |-> ncConversations,
                           creates |-> call.creates, returned |-> 0,
                           postedTo |-> call.postedTo, failedAt |-> "none",
                           response |-> 0]
           /\ createLog' = IF call.creates = 1
                           THEN Append(createLog, createRequest("sendMessage"))
                           ELSE createLog
           /\ postLog' = IF call.pc = "post" THEN Append(postLog, call.postedTo) ELSE postLog
    /\ UNCHANGED <<ncInit, ncConversations, ncCurrent, ncNewChat, srvConvs>>
    /\ UNCHANGED <<renderVars, pollVars, ciVars, uploadVars>>

\* sendMessage: the create resolves, the message is posted to the new id
NcCreateResolved ==
    /\ ncSubmit.pc = "create"
    /\ srvConvs' = Append(srvConvs, Conversation(NewConversationId))
    /\ ncSubmit' = [ncSubmit EXCEPT !.pc = "post", !.returned = NewConversationId,
                                    !.postedTo = NewConversationId]
    /\ postLog' = Append(postLog, NewConversationId)
    /\ UNCHANGED <<ncInit, ncConversations, ncCurrent, ncLoading, ncNewChat, createLog>>
    /\ UNCHANGED <<renderVars, pollVars, ciVars, uploadVars>>

\* sendMessage: the create rejects; catch and finally of handleSubmit
NcCreateRejected ==
    /\ ncSubmit.pc = "create"
    /\ ncSubmit' = [ncSubmit EXCEPT !.pc = "failed", !.failedAt = "create"]
    /\ ncLoading' = FALSE
    /\ UNCHANGED <<ncInit, ncConversations, ncCurrent, ncNewChat, apiVars>>
    /\ UNCHANGED <<renderVars, pollVars, ciVars, uploadVars>>

\* sendMessage resolves with the response. With no current conversation at
\* the time of the submit the list is fetched; else the response is appended
\* to the conversation, in the list the handler closed over.
NcPostResolved ==
    /\ ncSubmit.pc = "post"
    /\ srvConvs' = appendResponse(srvConvs, ncSubmit.postedTo, Response(Len(postLog)))
    /\ IF ncSubmit.cur = 0
       THEN /\ ncSubmit' = [ncSubmit EXCEPT !.pc = "list", !.response = Len(postLog)]
            /\ UNCHANGED <<ncConversations, ncLoading>>
       ELSE /\ ncSubmit' = [ncSubmit EXCEPT !.pc = "done", !.response = Len(postLog)]
            /\ ncConversations' = appendResponse(ncSubmit.convs, ncSubmit.cur, Response(Len(postLog)))
            /\ ncLoading' = FALSE
    /\ UNCHANGED <<ncInit, ncCurrent, ncNewChat, createLog, postLog>>
    /\ UNCHANGED <<renderVars, pollVars, ciVars, uploadVars>>

\* sendMessage rejects at the post; catch and finally of handleSubmit
NcPostRejected ==
    /\ ncSubmit.pc = "post"
    /\ ncSubmit' = [ncSubmit EXCEPT !.pc = "failed", !.failedAt = "post"]
    /\ ncLoading' = FALSE
    /\ UNCHANGED <<ncInit, ncConversations, ncCurrent, ncNewChat, apiVars>>
    /\ UNCHANGED <<renderVars, pollVars, ciVars, uploadVars>>

\* conversations[conversations.length - 1].id
lastConversationId(convs) == convs[Len(convs)].id

\* conversationApi.list() of handleSubmit resolves: the list is replaced and
\* its last element becomes the current conversation
NcListResolved ==
    /\ ncSubmit.pc = "list"
    /\ ncSubmit' = [ncSubmit EXCEPT !.pc = "done"]
    /\ ncConversations' = srvConvs
    /\ ncCurrent' = lastConversationId(srvConvs)
    /\ ncLoading' = FALSE
    /\ UNCHANGED <<ncInit, ncNewChat, apiVars>>
    /\ UNCHANGED <<renderVars, pollVars, ciVars, uploadVars>>

\* conversationApi.list() of handleSubmit rejects; catch and finally
NcListRejected ==
    /\ ncSubmit.pc = "list"
    /\ ncSubmit' = [ncSubmit EXCEPT !.pc = "failed", !.failedAt = "list"]
    /\ ncLoading' = FALSE
    /\ UNCHANGED <<ncInit, ncConversations, ncCurrent, ncNewChat, apiVars>>
    /\ UNCHANGED <<renderVars, pollVars, ciVars, uploadVars>>

\* the sequence without its i-th element
RemoveAt(seq, i) == SubSeq(seq, 1, i - 1) \o SubSeq(seq, i + 1, Len(seq))

\* the button "新建对话": handleNewChat up to `await conversationApi.create`.
\* The button is never disabled: every click starts a call of its own, which
\* closes over the conversations of the render it was clicked in.
NcHandleNewChat ==
    /\ Len(createLog) < MaxCreates
    /\ ncNewChat' = [ncNewChat EXCEPT !.pending = Append(@, ncConversations)]
    /\ createLog' = Append(createLog, createRequest("handleNewChat"))
    /\ UNCHANGED <<ncInit, ncConversations, ncCurrent, ncLoading, ncSubmit, srvConvs, postLog>>
    /\ UNCHANGED <<renderVars, pollVars, ciVars, uploadVars>>

\* the create of the i-th pending handleNewChat resolves:
\* setConversations([...conversations, newConversation]) on the closed-over list
NcNewChatResolved(i) ==
    /\ i \in 1..Len(ncNewChat.pending)
    /\ srvConvs' = Append(srvConvs, Conversation(NewConversationId))
    /\ ncConversations' = Append(ncNewChat.pending[i], Conversation(NewConversationId))
    /\ ncCurrent' = NewConversationId
    /\ ncNewChat' = [ncNewChat EXCEPT !.pending = RemoveAt(@, i),
                                      !.created = @ \cup {NewConversationId}]
    /\ UNCHANGED <<ncInit, ncLoading, ncSubmit, createLog, postLog>>
    /\ UNCHANGED <<renderVars, pollVars, ciVars, uploadVars>>

\* the create of the i-th pending handleNewChat rejects
NcNewChatRejected(i) ==
    /\ i \in 1..Len(ncNewChat.pending)
    /\ ncNewChat' = [ncNewChat EXCEPT !.pending = RemoveAt(@, i)]
    /\ UNCHANGED <<ncInit, ncConversations, ncCurrent, ncLoading, ncSubmit, apiVars>>
    /\ UNCHANGED <<renderVars, pollVars, ciVars, uploadVars>>

\* a click on a conversation of the list: setCurrentConversation(conv.id)
NcSelectConversation(i) ==
    /\ i \in 1..Len(ncConversations)
    /\ ncCurrent # ncConversations[i].id
    /\ ncCurrent' = ncConversations[i].id
    /\ UNCHANGED <<ncInit, ncConversations, ncLoading, ncSubmit, ncNewChat, apiVars>>
    /\ UNCHANGED <<renderVars, pollVars, ciVars, uploadVars>>

----------------------------------------------------------------------------
(* ChatInterface (src/unnamed/part_003) *)

\* the user message of handleSubmit; its id is Date.now(), which no id given
\* out by the backend equals
UserMessage(now) == [id |-> [origin |-> "client", n |-> now], role |-> "user"]

\* prev.filter(msg => msg.id !== userMessage.id)
rollback(msgs, id) == SelectSeq(msgs, LAMBDA m : m.id # id)

\* currentConversationId || userMessage.conversation_id
postTargetClosure(cur, convId) == cur
postTarget(cur, convId) == IF cur # 0 THEN cur ELSE convId

\* conversationApi.getMessages(convId)
getMessages(convId) ==
    LET i == CHOOSE j \in 1..Len(srvConvs) : srvConvs[j].id = convId
    IN  srvConvs[i].messages

IdleSubmit == [pc |-> "idle", cur |-> 0, user |-> UserMessage(0).id, before |-> <<>>,
               touched |-> FALSE, order |-> <<>>, creates |-> 0, returned |-> 0,
               postedTo |-> 0, failedAt |-> "none"]

SubmitPending == ciSubmit.pc \in {"title", "create", "post"}

\* another handler replaces the message list while a submit is under way
Touched == [ciSubmit EXCEPT !.touched = @ \/ SubmitPending]

InitChatInterface ==
    /\ ciMessages = <<>>
    /\ ciConversations = <<>>
    /\ ciCurrent = 0
    /\ ciLoading = FALSE
    /\ ciSubmit = IdleSubmit
    /\ ciSelect = <<>>
    /\ ciClock = 0

\* handleSubmit up to its first await: the user message is shown, then, with
\* no current conversation, the title is requested; else the message is sent
CiHandleSubmit ==
    /\ ~ciLoading
    /\ Len(postLog) < MaxPosts
    /\ ciCurrent = 0 => Len(createLog) < MaxCreates
    /\ ciClock' = ciClock + 1
    /\ ciMessages' = Append(ciMessages, UserMessage(ciClock + 1))
    /\ ciLoading' = TRUE
    /\ IF ciCurrent = 0
       THEN /\ ciSubmit' = [pc |-> "title", cur |-> 0, user |-> UserMessage(ciClock + 1).id,
                            before |-> ciMessages, touched |-> FALSE,
                            order |-> <<"setMessages", "generateTitle">>,
                            creates |-> 0, returned |-> 0, postedTo |-> 0,
                            failedAt |-> "none"]
            /\ UNCHANGED <<createLog, postLog>>
       ELSE LET call == sendMessage(ciCurrent)
            IN  /\ ciSubmit' = [pc |-> call.pc, cur |-> ciCurrent,
                                user |-> UserMessage(ciClock + 1).id,
                                before |-> ciMessages, touched |-> FALSE,
                                order |-> <<"setMessages", "sendMessage">>,
                                creates |-> call.creates, returned |-> 0,
                                postedTo |-> call.postedTo, failedAt |-> "none"]
                /\ createLog' = IF call.creates = 1
                                THEN Append(createLog, createRequest("sendMessage"))
                                ELSE createLog
                /\ postLog' = IF call.pc = "post"
                              THEN Append(postLog, call.postedTo)
                              ELSE postLog
    /\ UNCHANGED <<ciConversations, ciCurrent, ciSelect, srvConvs>>
    /\ UNCHANGED <<renderVars, pollVars, ncVars, uploadVars>>

\* generateTitle returns, with the generated title or with its fallback (it
\* catches its own failures), and the conversation is created under that title
CiTitleSettled ==
    /\ ciSubmit.pc = "title"
    /\ ciSubmit' = [ciSubmit EXCEPT !.pc = "create", !.creates = @ + 1,
                                    !.order = Append(@, "create")]
    /\ createLog' = Append(createLog, createRequest("handleSubmit"))
    /\ UNCHANGED <<ciMessages, ciConversations, ciCurrent, ciLoading, ciSelect, ciClock,
                   srvConvs, postLog>>
    /\ UNCHANGED <<renderVars, pollVars, ncVars, uploadVars>>

\* the create resolves: the conversation is put at the head of the list and
\* made current, and the message is sent to it
CiCreateResolved ==
    /\ ciSubmit.pc = "create"
    /\ srvConvs' = Append(srvConvs, Conversation(NewConversationId))
    /\ ciConversations' = <<Conversation(NewConversationId)>> \o ciConversations
    /\ ciCurrent' = NewConversationId
    /\ LET call == sendMessage(postTarget(ciSubmit.cur, NewConversationId))
       IN  /\ ciSubmit' = [ciSubmit EXCEPT !.pc = call.pc, !.creates = @ + call.creates,
                                           !.returned = NewConversationId,
                                           !.postedTo = call.postedTo,
                                           !.order = Append(@, "sendMessage")]
           /\ createLog' = IF call.creates = 1
                           THEN Append(createLog, createRequest("sendMessage"))
                           ELSE createLog
           /\ postLog' = IF call.pc = "post" THEN Append(postLog, call.postedTo) ELSE postLog
    /\ UNCHANGED <<ciMessages, ciLoading, ciSelect, ciClock>>
    /\ UNCHANGED <<renderVars, pollVars, ncVars, uploadVars>>

\* the create rejects: catch and finally of handleSubmit
CiCreateRejected ==
    /\ ciSubmit.pc = "create"
    /\ ciMessages' = rollback(ciMessages, ciSubmit.user)
    /\ ciLoading' = FALSE
    /\ ciSubmit' = [ciSubmit EXCEPT !.pc = "failed", !.failedAt = "create"]
    /\ UNCHANGED <<ciConversations, ciCurrent, ciSelect, ciClock, apiVars>>
    /\ UNCHANGED <<renderVars, pollVars, ncVars, uploadVars>>

\* sendMessage resolves: the response is appended to the messages shown
CiPostResolved ==
    /\ ciSubmit.pc = "post"
    /\ srvConvs' = appendResponse(srvConvs, ciSubmit.postedTo, Response(Len(postLog)))
    /\ ciMessages' = Append(ciMessages, Response(Len(postLog)))
    /\ ciLoading' = FALSE
    /\ ciSubmit' = [ciSubmit EXCEPT !.pc = "done"]
    /\ UNCHANGED <<ciConversations, ciCurrent, ciSelect, ciClock, createLog, postLog>>
    /\ UNCHANGED <<renderVars, pollVars, ncVars, uploadVars>>

\* sendMessage rejects: catch and finally of handleSubmit
CiPostRejected ==
    /\ ciSubmit.pc = "post"
    /\ ciMessages' = rollback(ciMessages, ciSubmit.user)
    /\ ciLoading' = FALSE
    /\ ciSubmit' = [ciSubmit EXCEPT !.pc = "failed", !.failedAt = "post"]
    /\ UNCHANGED <<ciConversations, ciCurrent, ciSelect, ciClock, apiVars>>
    /\ UNCHANGED <<renderVars, pollVars, ncVars, uploadVars>>

\* handleNewChat: the current conversation and the messages are cleared
CiHandleNewChat ==
    /\ ciCurrent' = 0
    /\ ciMessages' = <<>>
    /\ ciSubmit' = Touched
    /\ UNCHANGED <<ciConversations, ciLoading, ciSelect, ciClock, apiVars>>
    /\ UNCHANGED <<renderVars, pollVars, ncVars, uploadVars>>

\* the calls of handleSelectConversation that may await getMessages at once
MaxSelects == 2

\* handleSelectConversation up to `await conversationApi.getMessages`: a click
\* on a row other than the current one, whatever is in flight
CiHandleSelectConversation(i) ==
    /\ i \in 1..Len(ciConversations)
    /\ ciConversations[i].id # ciCurrent
    /\ Len(ciSelect) < MaxSelects
    /\ ciSelect' = Append(ciSelect, ciConversations[i].id)
    /\ UNCHANGED <<ciMessages, ciConversations, ciCurrent, ciLoading, ciSubmit, ciClock,
                   apiVars>>
    /\ UNCHANGED <<renderVars, pollVars, ncVars, uploadVars>>

\* the getMessages of the k-th pending call resolves: the history replaces
\* the messages shown and its conversation becomes the current one
CiSelectResolved(k) ==
    /\ k \in 1..Len(ciSelect)
    /\ ciMessages' = getMessages(ciSelect[k])
    /\ ciCurrent' = ciSelect[k]
    /\ ciSelect' = RemoveAt(ciSelect, k)
    /\ ciSubmit' = Touched
    /\ UNCHANGED <<ciConversations, ciLoading, ciClock, apiVars>>
    /\ UNCHANGED <<renderVars, pollVars, ncVars, uploadVars>>

\* the getMessages of the k-th pending call rejects
CiSelectRejected(k) ==
    /\ k \in 1..Len(ciSelect)
    /\ ciSelect' = RemoveAt(ciSelect, k)
    /\ UNCHANGED <<ciMessages, ciConversations, ciCurrent, ciLoading, ciSubmit, ciClock,
                   apiVars>>
    /\ UNCHANGED <<renderVars, pollVars, ncVars, uploadVars>>

InitChat == InitApi(<<>>) /\ InitNewChat /\ InitChatInterface

----------------------------------------------------------------------------
(* DocumentUpload (src/unnamed/part_002) *)

\* files listed by the dialog, and documents stored by the backend, in one run
MaxFiles == 2
MaxDocs == 3

\* 'application/pdf', 'application/msword', ... 'text/plain'
ValidTypes == {"application/pdf", "application/msword",
               "application/vnd.openxmlformats-officedocument.wordprocessingml.document",
               "application/vnd.ms-excel",
               "application/vnd.openxmlformats-officedocument.spreadsheetml.sheet",
               "text/plain"}

\* the 100 of `file.size / 1024 / 1024 < 100`
SizeLimitMB == 100
BytesPerMB == 1024 * 1024

\* file.size / 1024 / 1024 < 100; the divisions by 1024 are exact
isLt100M(size) == size < SizeLimitMB * BytesPerMB

\* beforeUpload: Upload.LIST_IGNORE keeps the file out of the list, false
\* lists it without uploading it
beforeUpload(file) ==
    IF file.type \notin ValidTypes THEN "LIST_IGNORE"
    ELSE IF ~isLt100M(file.size) THEN "LIST_IGNORE"
    ELSE "false"

\* the files a user may pick: every supported type and two others, and
\* sizes around the limit
OtherTypes == {"image/png", ""}
EdgeSizes == {SizeLimitMB * BytesPerMB - 1, SizeLimitMB * BytesPerMB,
              SizeLimitMB * BytesPerMB + 1}
Files ==
    {[type |-> t, size |-> 1] : t \in ValidTypes \cup OtherTypes}
    \cup {[type |-> t, size |-> z] : t \in {"application/pdf", "image/png"}, z \in EdgeSizes}

\* the UploadFile the Upload component lists for a picked file: handleUpload
\* reads its originFileObj, which the component sets for every picked file
UploadFile(file, uid) == [uid |-> uid, originFileObj |-> TRUE]

\* the workspaces offered by the form's Select
Workspaces == {1, 2}

\* for (const file of fileList) { if (file.originFileObj) ... }: the next
\* file from position k on that is uploaded, or 0
nextFile(files, k) ==
    LET rest == {j \in k..Len(files) : files[j].originFileObj}
    IN  IF rest = {} THEN 0 ELSE CHOOSE j \in rest : \A l \in rest : j <= l

IdleRun == [pc |-> "idle", files |-> <<>>, ws |-> {}, i |-> 0, log |-> <<>>,
            success |-> 0, closed |-> 0]

UploadRequest(uid) == [op |-> "upload", uid |-> uid, doc |-> 0, ws |-> {}, result |-> "pending"]
LinkRequest(uid, doc, ws) == [op |-> "link", uid |-> uid, doc |-> doc, ws |-> ws,
                              result |-> "pending"]

\* the last request of the log settles
Settle(log, result, doc) ==
    [log EXCEPT ![Len(log)] = [@ EXCEPT !.result = result,
                                        !.doc = IF @ = 0 THEN doc ELSE @]]

InitUpload ==
    /\ duVisible = FALSE
    /\ duFileList = <<>>
    /\ duUploading = FALSE
    /\ duOffered = [file |-> [type |-> "", size |-> 1], verdict |-> "none"]
    /\ duNextUid = 1
    /\ duDocs = 0
    /\ duRun = IdleRun

\* a file is picked or dropped: beforeUpload, then onChange with the new list
DuSelectFile(file) ==
    /\ duVisible
    /\ duNextUid <= MaxFiles
    /\ duOffered' = [file |-> file, verdict |-> beforeUpload(file)]
    /\ IF beforeUpload(file) = "false"
       THEN /\ duFileList' = Append(duFileList, UploadFile(file, duNextUid))
            /\ duNextUid' = duNextUid + 1
       ELSE UNCHANGED <<duFileList, duNextUid>>
    /\ UNCHANGED <<duVisible, duUploading, duDocs, duRun>>
    /\ UNCHANGED <<renderVars, pollVars, chatVars>>

\* onRemove: the file is spliced out of the list
DuRemoveFile(k) ==
    /\ duVisible
    /\ k \in 1..Len(duFileList)
    /\ duFileList' = SubSeq(duFileList, 1, k - 1) \o SubSeq(duFileList, k + 1, Len(duFileList))
    /\ UNCHANGED <<duVisible, duUploading, duOffered, duNextUid, duDocs, duRun>>
    /\ UNCHANGED <<renderVars, pollVars, chatVars>>

\* the button 取消 or the modal's close: onCancel
DuCancel ==
    /\ duVisible
    /\ duVisible' = FALSE
    /\ UNCHANGED <<duFileList, duUploading, duOffered, duNextUid, duDocs, duRun>>
    /\ UNCHANGED <<renderVars, pollVars, chatVars>>

\* the button 上传文档 of DocumentList: setUploadModalVisible(true)
DuOpen ==
    /\ ~duVisible
    /\ duVisible' = TRUE
    /\ UNCHANGED <<duFileList, duUploading, duOffered, duNextUid, duDocs, duRun>>
    /\ UNCHANGED <<renderVars, pollVars, chatVars>>

\* the end of the try block: every file is done; success message, the list
\* and the form are cleared, onSuccess, onCancel, and finally
Finished(run) ==
    /\ duRun' = [run EXCEPT !.pc = "done", !.success = @ + 1, !.closed = @ + 1]
    /\ duFileList' = <<>>
    /\ duVisible' = FALSE
    /\ duUploading' = FALSE

\* the loop goes on with the file at position k or after it, if there is one
Continue(run, k) ==
    IF nextFile(run.files, k) = 0
    THEN Finished(run)
    ELSE /\ duRun' = [run EXCEPT !.pc = "upload", !.i = nextFile(run.files, k),
                                 !.log = Append(@, UploadRequest(
                                             run.files[nextFile(run.files, k)].uid))]
         /\ duUploading' = TRUE
         /\ UNCHANGED <<duFileList, duVisible>>

\* the button 确定: handleUpload up to the first upload. The button is in its
\* loading state while `uploading` is set. A form without a workspace fails
\* validateFields, which rejects before the try block.
DuHandleUpload(ws) ==
    /\ duVisible
    /\ ~duUploading
    /\ duRun.pc \notin {"upload", "link"}
    /\ duDocs + Len(duFileList) <= MaxDocs
    /\ IF ws = {}
       THEN /\ duRun' = [IdleRun EXCEPT !.pc = "invalid"]
            /\ UNCHANGED <<duFileList, duVisible, duUploading>>
       ELSE IF Len(duFileList) = 0
       THEN /\ duRun' = [IdleRun EXCEPT !.pc = "nofiles", !.ws = ws]
            /\ UNCHANGED <<duFileList, duVisible, duUploading>>
       ELSE Continue([IdleRun EXCEPT !.files = duFileList, !.ws = ws], 1)
    /\ UNCHANGED <<duOffered, duNextUid, duDocs>>
    /\ UNCHANGED <<renderVars, pollVars, chatVars>>

\* documentApi.upload resolves: the document is linked to the workspaces
DuUploadResolved ==
    /\ duRun.pc = "upload"
    /\ duDocs' = duDocs + 1
    /\ duRun' = [duRun EXCEPT !.pc = "link",
                              !.log = Append(Settle(@, "ok", duDocs + 1),
                                             LinkRequest(duRun.files[duRun.i].uid,
                                                         duDocs + 1, duRun.ws))]
    /\ UNCHANGED <<duVisible, duFileList, duUploading, duOffered, duNextUid>>
    /\ UNCHANGED <<renderVars, pollVars, chatVars>>

\* documentApi.upload rejects: catch and finally
DuUploadRejected ==
    /\ duRun.pc = "upload"
    /\ duRun' = [duRun EXCEPT !.pc = "failed", !.log = Settle(@, "failed", 0)]
    /\ duUploading' = FALSE
    /\ UNCHANGED <<duVisible, duFileList, duOffered, duNextUid, duDocs>>
    /\ UNCHANGED <<renderVars, pollVars, chatVars>>

\* documentApi.linkWorkspace resolves: the loop goes on with the next file
DuLinkResolved ==
    /\ duRun.pc = "link"
    /\ Continue([duRun EXCEPT !.log = Settle(@, "ok", 0)], duRun.i + 1)
    /\ UNCHANGED <<duOffered, duNextUid, duDocs>>
    /\ UNCHANGED <<renderVars, pollVars, chatVars>>

\* a failed link that is passed over: the loop goes on with the next file
DuLinkRejectedSkip ==
    /\ duRun.pc = "link"
    /\ Continue([duRun EXCEPT !.log = Settle(@, "failed", 0)], duRun.i + 1)
    /\ UNCHANGED <<duOffered, duNextUid, duDocs>>
    /\ UNCHANGED <<renderVars, pollVars, chatVars>>

\* documentApi.linkWorkspace rejects: catch and finally
DuLinkRejected ==
    /\ duRun.pc = "link"
    /\ duRun' = [duRun EXCEPT !.pc = "failed", !.log = Settle(@, "failed", 0)]
    /\ duUploading' = FALSE
    /\ UNCHANGED <<duVisible, duFileList, duOffered, duNextUid, duDocs>>
    /\ UNCHANGED <<renderVars, pollVars, chatVars>>

----------------------------------------------------------------------------
(* Specifications *)

\* the Message components over all bounded inputs; no DocumentPanel activity
InitMessage == InitRender /\ InitPoll /\ InitChat /\ InitUpload

NextMessage ==
    \/ RenderMessage
    \/ RenderWebMessage

SpecRender == InitMessage /\ [][NextMessage]_vars

\* the DocumentPanel; no message is rendered
InitPanel ==
    /\ content = <<>>
    /\ citations = <<>>
    /\ view = "none"
    /\ segments = <<>>
    /\ InitPoll
    /\ InitChat
    /\ InitUpload

NextPanel ==
    \/ HandleFileUpload
    \/ \E d \in Docs : UploadResolved(d)
    \/ UploadRejected
    \/ \E d \in Docs, s \in Statuses : StatusResolved(d, s)
    \/ \E d \in Docs : StatusRejected(d)
    \/ \E d \in Docs : TimerFires(d)
    \/ HandleDelete
    \/ DeleteResolved
    \/ DeleteRejected
    \/ Close

SpecPoller == InitPanel /\ [][NextPanel]_vars

\* the browser runs every timer that is due, and every getStatus request
\* settles, with a status or with a failure
FairPolling ==
    \A d \in Docs :
        /\ WF_vars(TimerFires(d))
        /\ WF_vars((\E s \in Statuses : StatusResolved(d, s)) \/ StatusRejected(d))

SpecPollerFair == SpecPoller /\ FairPolling

\* NewChatInterface and conversationApi; no panel, no message rendering
NextNewChat ==
    \/ NcInitResolved
    \/ NcInitRejected
    \/ NcHandleSubmit
    \/ NcCreateResolved
    \/ NcCreateRejected
    \/ NcPostResolved
    \/ NcPostRejected
    \/ NcListResolved
    \/ NcListRejected
    \/ NcHandleNewChat
    \/ \E i \in 1..MaxCreates : NcNewChatResolved(i)
    \/ \E i \in 1..MaxCreates : NcNewChatRejected(i)
    \/ \E i \in 1..(MaxCreates + 1) : NcSelectConversation(i)

\* the backend starts with no conversation or with one of an earlier visit
InitNewChatPage ==
    /\ content = <<>>
    /\ citations = <<>>
    /\ view = "none"
    /\ segments = <<>>
    /\ InitPoll
    /\ \E convs \in {<<>>, <<Conversation(1)>>} : InitApi(convs)
    /\ InitNewChat
    /\ InitChatInterface
    /\ InitUpload

SpecNewChat == InitNewChatPage /\ [][NextNewChat]_vars

\* ChatInterface and conversationApi
NextChat ==
    \/ CiHandleSubmit
    \/ CiTitleSettled
    \/ CiCreateResolved
    \/ CiCreateRejected
    \/ CiPostResolved
    \/ CiPostRejected
    \/ CiHandleNewChat
    \/ \E i \in 1..MaxCreates : CiHandleSelectConversation(i)
    \/ \E k \in 1..MaxSelects : CiSelectResolved(k)
    \/ \E k \in 1..MaxSelects : CiSelectRejected(k)

SpecChat == InitPanel /\ [][NextChat]_vars

\* DocumentUpload and documentApi
NextUpload ==
    \/ \E file \in Files : DuSelectFile(file)
    \/ \E k \in 1..MaxFiles : DuRemoveFile(k)
    \/ DuCancel
    \/ DuOpen
    \/ \E ws \in SUBSET Workspaces : DuHandleUpload(ws)
    \/ DuUploadResolved
    \/ DuUploadRejected
    \/ DuLinkResolved
    \/ DuLinkRejected

SpecUpload == InitPanel /\ [][NextUpload]_vars

----------------------------------------------------------------------------
(* Vocabulary of the properties of the renderer *)

Range(f) == {f[i] : i \in DOMAIN f}

\* the text of all segments, in order
Texts(segs) == Flatten([i \in 1..Len(segs) |-> segs[i].text])

\* the markers of s, in textual order, found position by position and not
\* through split: two matches of /\[\d+\]/ never overlap
MarkerStarts(s) == SelectSeq([i \in 1..Len(s) |-> i], LAMBDA i : MatchEnd(s, i) # 0)
Markers(s) ==
    LET st == MarkerStarts(s)
    IN  [k \in 1..Len(st) |-> SubSeq(s, st[k], MatchEnd(s, st[k]))]

IsMarker(t) == Len(t) > 0 /\ MatchEnd(t, 1) = Len(t)
MarkerNumber(m) == parseInt(SubSeq(m, 2, Len(m) - 1))
HasCitation(cits, n) == \E i \in 1..Len(cits) : cits[i].index = n

MatchedMarkers(c, cits) ==
    SelectSeq(Markers(c), LAMBDA m : HasCitation(cits, MarkerNumber(m)))
UnmatchedMarkers(c, cits) ==
    SelectSeq(Markers(c), LAMBDA m : ~HasCitation(cits, MarkerNumber(m)))

RefSegments(segs) == SelectSeq(segs, LAMBDA g : g.kind = "CitationRef")
PlainMarkerSegments(segs) ==
    SelectSeq(segs, LAMBDA g : g.kind = "Plain" /\ IsMarker(g.text))
TextOf(segs) == [i \in 1..Len(segs) |-> segs[i].text]

UniqueIndexes(cits) ==
    \A i, j \in 1..Len(cits) : cits[i].index = cits[j].index => i = j
Reorderings(cits) ==
    {[i \in 1..Len(cits) |-> cits[f[i]]] :
        f \in {g \in [1..Len(cits) -> 1..Len(cits)] :
                  \A i, j \in 1..Len(cits) : g[i] = g[j] => i = j}}

RenderAs(v, c, cits) ==
    IF v = "Message" THEN renderContent(c, cits) ELSE renderContentWeb(c, cits)

Cit17 == [index |-> 1, document_id |-> 7]
Cit28 == [index |-> 2, document_id |-> 8]

----------------------------------------------------------------------------
(* Properties of the renderer, under SpecRender *)

\* C1: round trip. In both variants, for every content and every citation
\* list, the texts of the rendered segments concatenated in order are content.
C1_RoundTrip ==
    view # "none" => Texts(segments) = content

\* a content with a resolved and an unresolved marker, rendered in five segments
C1_Witness ==
    /\ view = "Message"
    /\ content = <<"[", "2", "]", "a", "[", "1", "]">>
    /\ citations = <<Cit17>>
    /\ Len(segments) = 5
    /\ segments[4].kind = "CitationRef"

\* C6: every marker without a citation of its number is a Plain
\* segment of its own, whatever the citation list, and "see [5] here" with no
\* citations is rendered as "see ", "[5]", " here".
C6_UnmatchedOwnSegment ==
    view # "none" =>
        /\ TextOf(PlainMarkerSegments(segments)) = UnmatchedMarkers(content, citations)
        /\ (content = SeeFiveHere /\ citations = <<>>) =>
              segments = <<Plain(SubSeq(SeeFiveHere, 1, 4)),
                           Plain(SubSeq(SeeFiveHere, 5, 7)),
                           Plain(SubSeq(SeeFiveHere, 8, 12))>>

\* C7: the citation references are, in order, exactly the markers whose
\* number is the index of a citation of the list; each carries the marker's
\* text unchanged and a citation of the list with that index. "A[1]B" with a
\* citation of index 1 is Plain "A", the reference "[1]", Plain "B".
C7_MatchedMarkers ==
    view # "none" =>
        LET refs == RefSegments(segments)
            marks == MatchedMarkers(content, citations)
        IN  /\ Len(refs) = Len(marks)
            /\ \A k \in 1..Len(refs) :
                  /\ refs[k].text = marks[k]
                  /\ refs[k].citation \in Range(citations)
                  /\ refs[k].citation.index = MarkerNumber(marks[k])
            /\ (content = AOneB /\ citations = <<Cit17>>) =>
                  segments = <<Plain(<<"A">>),
                               CitationRef(<<"[", "1", "]">>, Cit17),
                               Plain(<<"B">>)>>

C7_Witness ==
    /\ view = "Message"
    /\ content = AOneB
    /\ citations = <<Cit17>>
    /\ Len(segments) = 3
    /\ segments[2] = CitationRef(<<"[", "1", "]">>, Cit17)

\* C8: resolution is by index. Every citation reference carries a citation
\* of the list whose index is the number of its marker, wherever the marker
\* stands in the text; and with distinct indices the rendering is the same
\* for every order of the citation list.
C8_ByIndex ==
    view # "none" =>
        /\ \A i \in 1..Len(segments) :
              segments[i].kind = "CitationRef" =>
                  /\ segments[i].citation \in Range(citations)
                  /\ segments[i].citation.index = MarkerNumber(segments[i].text)
        /\ UniqueIndexes(citations) =>
              \A p \in Reorderings(citations) : RenderAs(view, content, p) = segments

\* "[2] then [1]" with the citations listed as 1, 2
C8_Witness ==
    /\ view = "Message"
    /\ content = TwoThenOne
    /\ citations = <<Cit17, Cit28>>
    /\ segments[2] = CitationRef(<<"[", "2", "]">>, Cit28)
    /\ segments[4] = CitationRef(<<"[", "1", "]">>, Cit17)

----------------------------------------------------------------------------
(* Properties of the poll loop, under SpecPoller *)

NonTerminalStatuses == {"pending", "processing"}
TerminalStatuses == {"processed", "error"}

\* C2: polling goes on while the fetched status is pending or processing:
\* after such a status the terminal callback has not been called and the
\* next fetch is scheduled or already in flight.
C2_PollsWhileNonTerminal ==
    \A d \in Docs :
        lastStatus[d] \in NonTerminalStatuses =>
            /\ terminalCalls[d] = 0
            /\ timers[d] + inflight[d] >= 1

\* C3: a loop that has called the terminal callback, or has come to rest
\* without a failed fetch, fetched k non-terminal statuses and then a
\* terminal one: k+1 fetches, one call of the terminal callback, no timer
\* and no fetch left.
C3_TerminalTransition ==
    \A d \in Docs :
        (terminalCalls[d] > 0 \/ (Phase(d) = "rest" /\ lastStatus[d] # "rejected")) =>
            /\ lastStatus[d] \in TerminalStatuses
            /\ fetches[d] = nonTerminal[d] + 1
            /\ terminalCalls[d] = 1
            /\ timers[d] = 0
            /\ inflight[d] = 0

\* C4: a loop stopped by the dismissal of the panel after its first fetch
\* resolved as pending and before its timer fired never fetches again and
\* never calls the terminal callback.
C4_StopBeforeSecondFetch ==
    \A d \in Docs :
        (closePhase[d] = "timer" /\ fetches[d] - afterClose[d].fetches = 1) =>
            /\ afterClose[d].fetches = 0
            /\ afterClose[d].terminal = 0

\* C5: a failed fetch ends the loop: setError is called once for it, no
\* timer and no fetch is left, and the terminal callback is not called.
C5_FetchError ==
    \A d \in Docs :
        /\ errorCalls[d] <= 1
        /\ (errorCalls[d] = 1) <=> (lastStatus[d] = "rejected")
        /\ lastStatus[d] = "rejected" =>
              /\ timers[d] = 0
              /\ inflight[d] = 0
              /\ terminalCalls[d] = 0

\* a loop that failed on its second fetch, while the panel is open
C5_Witness ==
    \E d \in Docs :
        /\ mounted
        /\ lastStatus[d] = "rejected"
        /\ fetches[d] = 2
        /\ error = "status"

\* C9: a poll loop has at most one fetch in flight, and never a timer set
\* while its fetch is in flight.
C9_OneFetchInFlight ==
    \A d \in Docs :
        /\ inflight[d] <= 1
        /\ inflight[d] + timers[d] <= 1

\* both loops in flight, each on a fetch started by its timer
C9_Witness ==
    \A d \in Docs : inflight[d] = 1 /\ fetches[d] >= 2

\* C10: when the panel is dismissed while a fetch of the loop is in flight,
\* the response sets no timer, calls no terminal callback and no setError.
C10_StopSuppressesResponse ==
    \A d \in Docs :
        closePhase[d] = "inflight" =>
            /\ afterClose[d].timers = 0
            /\ afterClose[d].terminal = 0
            /\ afterClose[d].errors = 0

----------------------------------------------------------------------------
(* Duplicate citation indices, under SpecRender *)

Cit18 == [index |-> 1, document_id |-> 8]

IndexPositions(cits, n) == {i \in 1..Len(cits) : cits[i].index = n}
LastWithIndex(cits, n) == cits[MaxOf(IndexPositions(cits, n))]
FirstWithIndex(cits, n) ==
    cits[CHOOSE i \in IndexPositions(cits, n) : \A j \in IndexPositions(cits, n) : i <= j]

\* C11 as stated: in both variants rendering completes and every citation
\* reference carries the last citation of the list with its marker's number.
C11_LastWins ==
    view # "none" =>
        /\ Len(segments) >= 1
        /\ \A i \in 1..Len(segments) :
              segments[i].kind = "CitationRef" =>
                  segments[i].citation =
                      LastWithIndex(citations, MarkerNumber(segments[i].text))

\* C11 as amended: rendering completes in both variants; the Map variant
\* (part_001) resolves a marker to the last citation of its number, the find
\* variant (web Message.tsx) to the first.
C11_LastOrFirstWins ==
    view # "none" =>
        /\ Len(segments) >= 1
        /\ \A i \in 1..Len(segments) :
              segments[i].kind = "CitationRef" =>
                  segments[i].citation =
                      IF view = "Message"
                      THEN LastWithIndex(citations, MarkerNumber(segments[i].text))
                      ELSE FirstWithIndex(citations, MarkerNumber(segments[i].text))

\* "A[1]B" with two citations of index 1, rendered by the Map variant
C11_Witness ==
    /\ view = "Message"
    /\ content = AOneB
    /\ citations = <<Cit17, Cit18>>
    /\ segments[2] = CitationRef(<<"[", "1", "]">>, Cit18)

----------------------------------------------------------------------------
(* Upload to poll, under SpecPoller *)

\* C12: a document has status fetches (issued, in flight or scheduled) only
\* once an upload has returned its id; every upload that returned an id has
\* started the poll loop of that id, and a failed upload starts none; a loop
\* that fetched a terminal status has refreshed the document list.
C12_UploadToPoll ==
    \A d \in Docs :
        /\ d \notin assigned => fetches[d] = 0 /\ inflight[d] = 0 /\ timers[d] = 0
        /\ d \in assigned => fetches[d] >= 1
        /\ lastStatus[d] \in TerminalStatuses => terminalCalls[d] = 1

\* one upload polled to processed, a second upload failed and started nothing
C12_Witness ==
    /\ assigned = {1}
    /\ lastStatus[1] = "processed"
    /\ fetches[1] = 2
    /\ terminalCalls[1] = 1
    /\ error = "upload"
    /\ ~uploading
    /\ fetches[2] = 0

----------------------------------------------------------------------------
(* No error outcome of the renderer, under SpecRender *)

\* C13: for every content and every citation list, empty, with unmatched
\* indices or with duplicates, rendering returns at least one segment and
\* every segment is a Plain text or a citation reference with a citation of
\* the list: no part of the content ends in an exception.
C13_NeverRaises ==
    view # "none" =>
        /\ Len(segments) >= 1
        /\ \A i \in 1..Len(segments) :
              \/ segments[i].kind = "Plain"
              \/ /\ segments[i].kind = "CitationRef"
                 /\ segments[i].citation \in Range(citations)

\* duplicates in the list and a marker without a citation
C13_Witness ==
    /\ view = "Message"
    /\ content = <<"[", "2", "]", "[", "1", "]">>
    /\ citations = <<Cit17, Cit18>>
    /\ segments[2] = Plain(<<"[", "2", "]">>)
    /\ segments[4].kind = "CitationRef"

----------------------------------------------------------------------------
(* Independence of the poll loops, under SpecPoller *)

LoopState(d) ==
    <<inflight[d], timers[d], fetches[d], lastStatus[d], nonTerminal[d],
      terminalCalls[d], errorCalls[d]>>

\* C14: when a fetch of loop e settles (a terminal status, or a failure),
\* no other loop d changes: its timer, its fetches and its outcome stay as
\* they are, and if `error` shows the failure of loop d it still shows it.
C14_LoopsIndependent ==
    [][\A d, e \in Docs :
          (d # e /\ inflight'[e] < inflight[e]) =>
              /\ LoopState(d)' = LoopState(d)
              /\ errorFrom = d => errorFrom' = d]_vars

----------------------------------------------------------------------------
(* MessageList.renderMessageContent: the variant keyed by array position *)

DigitChar(n) ==
    CASE n = 0 -> "0" [] n = 1 -> "1" [] n = 2 -> "2" [] n = 3 -> "3" [] n = 4 -> "4"
      [] n = 5 -> "5" [] n = 6 -> "6" [] n = 7 -> "7" [] n = 8 -> "8" [] n = 9 -> "9"

\* `${n}` of a number n >= 0
RECURSIVE numberToString(_)
numberToString(n) ==
    IF n < 10 THEN <<DigitChar(n)>>
    ELSE numberToString(n \div 10) \o <<DigitChar(n % 10)>>

\* a mark keyed by the citation's index field
citationMarkByIndex(cits, k) == <<"[">> \o numberToString(cits[k].index) \o <<"]">>

\* const citationMark = `[${index + 1}]` for the k-th citation (index = k - 1)
citationMark(cits, k) == <<"[">> \o numberToString(k) \o <<"]">>

\* content.indexOf(mark) + 1: the first occurrence of mark in text, or 0
IndexOf(text, mark) ==
    LET hits == {i \in 1..(Len(text) - Len(mark) + 1) :
                    SubSeq(text, i, i + Len(mark) - 1) = mark}
    IN  IF hits = {} THEN 0 ELSE CHOOSE i \in hits : \A j \in hits : i <= j

\* The HTML string is a sequence of pieces: text outside the inserted spans
\* (span = 0) and the inner text of the span inserted for citation k
\* (span = k). content.replace(mark, `<span ...>${mark}</span>`) replaces the
\* first occurrence of mark; the tags hold no mark, and the inner text of a
\* span is another mark, so the occurrence is in the first text piece that has one.
RECURSIVE replaceFirst(_, _, _)
replaceFirst(pieces, mark, k) ==
    IF pieces = <<>> THEN <<>>
    ELSE LET h == Head(pieces)
             i == IF h.span = 0 THEN IndexOf(h.text, mark) ELSE 0
         IN  IF i = 0
             THEN <<h>> \o replaceFirst(Tail(pieces), mark, k)
             ELSE <<[span |-> 0, text |-> SubSeq(h.text, 1, i - 1)],
                    [span |-> k, text |-> mark],
                    [span |-> 0, text |-> SubSeq(h.text, i + Len(mark), Len(h.text))]>>
                  \o Tail(pieces)

\* message.citations.forEach((citation, index) => content = content.replace(...))
\* over the first k citations
RECURSIVE replaceAll(_, _, _)
replaceAll(c, cits, k) ==
    IF k = 0 THEN <<[span |-> 0, text |-> c]>>
    ELSE replaceFirst(replaceAll(c, cits, k - 1), citationMark(cits, k), k)

\* `${citation}` of a Citation object (src/frontend/src/types.ts)
templateString(citation) == "[object Object]"

\* <span class="citation-mark ..." data-citation="${citation}">${citationMark}</span>
CitationMark(text, citation) ==
    [kind |-> "CitationMark", text |-> text, dataCitation |-> templateString(citation)]

\* dangerouslySetInnerHTML: the child nodes of the paragraph, a text node for
\* each non-empty text and the span inserted for a citation
htmlNodes(pieces, cits) ==
    LET kept == SelectSeq(pieces, LAMBDA x : x.span # 0 \/ x.text # <<>>)
    IN  [i \in 1..Len(kept) |->
            IF kept[i].span = 0
            THEN Plain(kept[i].text)
            ELSE CitationMark(kept[i].text, cits[kept[i].span])]

\* renderMessageContent of src/frontend/src/components/MessageList.tsx
renderMessageContent(c, cits) ==
    IF Len(cits) = 0
    THEN <<Plain(c)>>
    ELSE htmlNodes(replaceAll(c, cits, Len(cits)), cits)

\* <MessageList messages/> renders one message
RenderMessageList ==
    /\ view = "none"
    /\ view' = "MessageList"
    /\ segments' = renderMessageContent(content, citations)
    /\ UNCHANGED <<content, citations>>
    /\ UNCHANGED pollVars
    /\ UNCHANGED <<chatVars, uploadVars>>

\* the same message given to the Map-keyed Message and to MessageList
NextMessageList ==
    \/ RenderMessage
    \/ RenderMessageList

SpecMessageList == InitMessage /\ [][NextMessageList]_vars

----------------------------------------------------------------------------
(* The two matching rules, under SpecMessageList *)

\* the text of the segments before segment i
TextBefore(segs, i) == Flatten([j \in 1..(i - 1) |-> segs[j].text])

\* the marks a rendering has turned into references
MarkedTexts(segs) ==
    {segs[i].text : i \in {j \in 1..Len(segs) : segs[j].kind \in {"CitationRef", "CitationMark"}}}

\* C16: MessageList ties the mark [k] to the k-th citation of the list,
\* whatever its index field, and wraps only the first occurrence of [k]:
\* its references are exactly one per k whose mark occurs in the content,
\* standing at the first occurrence and carrying the string made of
\* citations[k]; no segment is a reference of the index-keyed kind. (The
\* witness is an input on which the marks that become references differ from
\* those of the index-keyed rendering.)
C16_ArrayPosition ==
    view = "MessageList" =>
        /\ \A i \in 1..Len(segments) :
              /\ segments[i].kind \in {"Plain", "CitationMark"}
              /\ segments[i].kind = "CitationMark" =>
                  \E k \in 1..Len(citations) :
                      /\ segments[i].text = <<"[">> \o numberToString(k) \o <<"]">>
                      /\ segments[i].dataCitation = templateString(citations[k])
                      /\ Len(TextBefore(segments, i)) + 1 = IndexOf(content, segments[i].text)
        /\ \A k \in 1..Len(citations) :
              LET mark == <<"[">> \o numberToString(k) \o <<"]">>
              IN  Cardinality({i \in 1..Len(segments) :
                                  segments[i].kind = "CitationMark" /\ segments[i].text = mark})
                      = IF IndexOf(content, mark) = 0 THEN 0 ELSE 1

\* "[2] then [1]" with the one citation of index 2: MessageList makes [1] a
\* reference, the mark of the first list position, the index-keyed renderer [2]
C16_Witness ==
    /\ view = "MessageList"
    /\ content = TwoThenOne
    /\ citations = <<Cit28>>
    /\ MarkedTexts(segments) = {<<"[", "1", "]">>}
    /\ MarkedTexts(renderContent(content, citations)) = {<<"[", "2", "]">>}

----------------------------------------------------------------------------
(* conversationApi and NewChatInterface *)

\* C15: every create-conversation request the client issues, from
\* conversationApi.create or from the auto-create inside sendMessage, carries
\* a workspace_id in its body.
C15_CreateCarriesWorkspace ==
    \A i \in 1..Len(createLog) : "workspace_id" \in createLog[i].body

\* C17: sendMessage called with a null id issues exactly one create request,
\* posts nothing until the create has returned and then posts to the returned
\* id (nothing is posted if the create fails); called with a non-null id it
\* issues no create request and posts to that id.
C17_AutoCreateOnlyWhenNull ==
    ncSubmit.pc # "idle" =>
        IF ncSubmit.cur = 0
        THEN /\ ncSubmit.creates = 1
             /\ \E i \in 1..Len(createLog) : createLog[i].caller = "sendMessage"
             /\ ncSubmit.pc = "create" => /\ ncSubmit.returned = 0
                                          /\ ncSubmit.postedTo = 0
             /\ ncSubmit.failedAt = "create" => /\ ncSubmit.postedTo = 0
                                                /\ \A i \in 1..Len(postLog) :
                                                       postLog[i] # 0
             /\ ncSubmit.postedTo # 0 =>
                   /\ ncSubmit.postedTo = ncSubmit.returned
                   /\ \E i \in 1..Len(srvConvs) : srvConvs[i].id = ncSubmit.returned
                   /\ postLog[Len(postLog)] = ncSubmit.returned
        ELSE /\ ncSubmit.creates = 0
             /\ ncSubmit.postedTo = ncSubmit.cur
             /\ postLog[Len(postLog)] = ncSubmit.cur

\* a send with no conversation has created one and posted to it, and the
\* send after it has posted to the current conversation without a create
C17_Witness ==
    /\ ncSubmit.pc = "done"
    /\ ncSubmit.cur # 0
    /\ Len(postLog) = 2
    /\ Len(createLog) = 1
    /\ createLog[1].caller = "sendMessage"
    /\ postLog[1] = postLog[2]

\* C20: when handleSubmit was called with no current conversation, the step
\* that ends it refreshes the list and makes current the conversation that
\* was auto-created for the message.
C20_CurrentIsAutoCreated ==
    [][(ncSubmit.pc = "list" /\ ncSubmit'.pc = "done") =>
          /\ ncConversations' = srvConvs
          /\ ncCurrent' = ncSubmit.returned]_vars

----------------------------------------------------------------------------
(* ChatInterface *)

SubmitStep == ~SubmitPending /\ ciSubmit'.pc \in {"title", "create", "post"}
RollbackStep == SubmitPending /\ ciSubmit'.pc = "failed"

\* C18: after a failed submit, be it the create or the send that failed,
\* messages equals its value before the submit.
C18_RollbackRestores ==
    [][RollbackStep => ciMessages' = ciSubmit.before]_vars

\* C19: handleNewChat clears the current conversation and the messages and
\* issues no create request: every create request is issued by a submit. A
\* submit made with no current conversation issues one create request, and no
\* second one, and sends the message to the id that create returned.
C19_LazyCreate ==
    [][/\ CiHandleNewChat => /\ ciCurrent' = 0
                              /\ ciMessages' = <<>>
                              /\ createLog' = createLog
                              /\ srvConvs' = srvConvs
       /\ createLog' # createLog =>
              /\ Len(createLog') = Len(createLog) + 1
              /\ ciSubmit'.creates = (IF SubmitStep THEN 0 ELSE ciSubmit.creates) + 1
       /\ ciSubmit'.pc # "idle" =>
              IF ciSubmit'.cur = 0
              THEN /\ ciSubmit'.creates \in {0, 1}
                   /\ ciSubmit'.pc = "title" <=> ciSubmit'.creates = 0
                   /\ ciSubmit'.pc \in {"title", "create"} \/ ciSubmit'.failedAt = "create"
                         => ciSubmit'.postedTo = 0
                   /\ ciSubmit'.postedTo # 0 =>
                         /\ ciSubmit'.postedTo = ciSubmit'.returned
                         /\ \E i \in 1..Len(srvConvs') : srvConvs'[i].id = ciSubmit'.returned
              ELSE /\ ciSubmit'.creates = 0
                   /\ ciSubmit'.postedTo = ciSubmit'.cur]_vars

\* after a new chat was started the first message has created a conversation
\* and got its answer from it
C19_Witness ==
    /\ ciSubmit.pc = "done"
    /\ ciSubmit.cur = 0
    /\ ciSubmit.creates = 1
    /\ Len(srvConvs) = 2
    /\ ciSubmit.postedTo = 2
    /\ ciCurrent = 2

----------------------------------------------------------------------------
(* DocumentUpload *)

\* C22: beforeUpload accepts a file exactly when its MIME type is one of the
\* six supported types and its size is at most 100MB (104857600 bytes); a
\* file of exactly 100MB is accepted.
C22_AcceptsUpTo100MB ==
    duOffered.verdict # "none" =>
        (duOffered.verdict = "false" <=>
            /\ duOffered.file.type \in ValidTypes
            /\ duOffered.file.size <= 100 * 1024 * 1024)

RunStarted == duRun.pc \in {"upload", "link", "done", "failed"}

\* C21: handleUpload takes the files one at a time in list order; a file's
\* link request is issued when its upload has completed, with the id the
\* upload returned and all selected workspaces; a request is issued only when
\* all before it have succeeded, so the first failure ends the run; onSuccess
\* and the close of the modal happen only when every file of the list was
\* uploaded and linked.
C21_UploadThenLink ==
    RunStarted =>
        LET log == duRun.log
            files == duRun.files
        IN  /\ Len(log) \in 1..(2 * Len(files))
            /\ \A k \in 1..Len(log) :
                  /\ log[k].uid = files[(k + 1) \div 2].uid
                  /\ log[k].op = IF k % 2 = 1 THEN "upload" ELSE "link"
                  /\ k < Len(log) => log[k].result = "ok"
                  /\ log[k].op = "link" =>
                        /\ log[k - 1].result = "ok"
                        /\ log[k].doc = log[k - 1].doc
                        /\ log[k].doc \in 1..duDocs
                        /\ log[k].ws = duRun.ws
                        /\ duRun.ws # {}
            /\ duRun.pc = "failed" <=> log[Len(log)].result = "failed"
            /\ duRun.pc \in {"upload", "link"} <=> log[Len(log)].result = "pending"
            /\ duRun.pc \in {"upload", "link"} => duUploading
            /\ duRun.success = duRun.closed
            /\ duRun.success = (IF duRun.pc = "done" THEN 1 ELSE 0)
            /\ duRun.success = 1 =>
                  /\ Len(log) = 2 * Len(files)
                  /\ \A k \in 1..Len(log) : log[k].result = "ok"

\* two files were uploaded and linked and the dialog has closed
C21_Witness ==
    /\ duRun.pc = "done"
    /\ Len(duRun.files) = 2
    /\ Len(duRun.log) = 4
    /\ duRun.success = 1
    /\ ~duVisible

----------------------------------------------------------------------------
(* Liveness of the poll loop *)

Quiet(d) == inflight[d] = 0 /\ timers[d] = 0
Settled(d) == terminalCalls[d] + errorCalls[d] > 0

\* C23: with timers that fire and requests that settle, a poll loop whose
\* status request is once answered with a status other than pending, or fails,
\* comes to rest with no fetch in flight and no timer pending, and stays there;
\* a loop that is answered pending fetches again, however often it has fetched
\* (up to the bound of the model), and rests for no other reason than such an
\* answer or a failure.
C23_PollLiveness ==
    \A d \in Docs :
        /\ <>Settled(d) => <>[]Quiet(d)
        /\ [](fetches[d] > 0 => <>(Settled(d) \/ fetches[d] = MaxFetches))
        /\ []((lastStatus[d] = "pending" /\ inflight[d] = 0 /\ fetches[d] < MaxFetches)
                 => <>(inflight[d] > 0))
        /\ []((fetches[d] > 0 /\ Quiet(d)) => Settled(d))

\* a loop was answered pending twice, fetched a third time and came to rest
C23_Witness ==
    /\ fetches[1] = 3
    /\ nonTerminal[1] = 2
    /\ lastStatus[1] = "processed"
    /\ Quiet(1)

----------------------------------------------------------------------------
(* Handlers that overlap *)

\* C24: the response of a send is appended to the messages shown only if the
\* conversation shown is the one the message was sent to; a response that
\* arrives after the user has selected another conversation or started a new
\* chat is not appended to the messages then shown.
C24_ResponseToItsConversation ==
    [][(ciSubmit.pc = "post" /\ ciSubmit'.pc = "done" /\ ciMessages' # ciMessages)
          => ciCurrent = ciSubmit.postedTo]_vars

ConversationIds(convs) == {convs[i].id : i \in 1..Len(convs)}

MessagesOf(convs, id) ==
    UNION {Range(convs[i].messages) : i \in {j \in 1..Len(convs) : convs[j].id = id}}

\* C25: once a send to an existing conversation and the creations of
\* handleNewChat have all completed, the state `conversations` holds every
\* conversation handleNewChat created and, in the conversation the message
\* was sent to, the response of the send.
C25_NoLostUpdate ==
    (ncSubmit.pc = "done" /\ ncSubmit.cur # 0 /\ ncNewChat.pending = <<>>) =>
        /\ ncNewChat.created \subseteq ConversationIds(ncConversations)
        /\ Response(ncSubmit.response) \in MessagesOf(ncConversations, ncSubmit.cur)

============================================================================
